---- MODULE Spec2Model ----
(***************************************************************************)
(* Model of src/src/github_sync.py: the GitHubSync controller, its local   *)
(* run counter file (.github_run_count) and the remote repository it       *)
(* writes to through the PyGithub client.                                  *)
(*                                                                         *)
(* Every public method is one action.  A remote call either returns or     *)
(* raises; what it raises is either GithubException (the only exception    *)
(* the methods catch by name) or some other exception of the client        *)
(* (a transport error, a decoding error).                                  *)
(*                                                                         *)
(* Text is modelled as a sequence of characters: the counter file holds    *)
(* decimal digits, the dashboard file holds characters of which only the   *)
(* line terminator "NL" is distinguished.  Scores are in hundredths.       *)
(***************************************************************************)
EXTENDS Integers, Sequences, FiniteSets, TLC

\* ---------------------------------------------------------------- bounds
MaxRuns == 4
MaxInterval == 3
InitLen == 2
MaxContent == 6

\* ------------------------------------------------------------- constants
Ctrl == {"A", "B"}
Single == {"A"}

NL == "NL"
NoFile == <<"NOFILE">>
Absent == <<"ABSENT">>
Digits == <<"0", "1", "2", "3", "4", "5", "6", "7", "8", "9">>

Outcomes == {"ok", "GithubException", "OtherException"}
Failures == Outcomes \ {"ok"}

Baselines == {0, 60, 100}
Currents == {-10, 50, 90, 95, 96}
DefaultThreshold == 5
Thresholds == {DefaultThreshold}
RunNumbers == {1, 2}

PRSteps == <<"get_branch", "create_git_ref", "get_contents",
             "update_file", "create_pull", "create_review_request">>
WriteCalls == {"create_file", "update_file", "create_issue",
               "create_git_ref", "create_pull"}

VARIABLES constructed, auto_commit, commit_interval, run_count,
          store, dashboard,
          op, who, args, ret, retNum, exc, calls, reported, prevDash,
          incs

vars == <<constructed, auto_commit, commit_interval, run_count,
          store, dashboard,
          op, who, args, ret, retNum, exc, calls, reported, prevDash,
          incs>>

ctrlVars == <<constructed, auto_commit, commit_interval>>

\* ------------------------------------------------------ text conversions
RECURSIVE IntToStr(_)
\* str(n) for n >= 0
IntToStr(n) ==
    IF n < 10 THEN <<Digits[n + 1]>>
    ELSE Append(IntToStr(n \div 10), Digits[(n % 10) + 1])

DigitVal(d) == (CHOOSE i \in 1..10 : Digits[i] = d) - 1

RECURSIVE StrToInt(_)
\* int(s) for a non-empty string of decimal digits
StrToInt(s) ==
    IF Len(s) = 1 THEN DigitVal(s[1])
    ELSE 10 * StrToInt(SubSeq(s, 1, Len(s) - 1)) + DigitVal(s[Len(s)])

\* number of lines of a text, as str.splitlines() counts them
Rows(s) ==
    Cardinality({i \in 1..Len(s) : s[i] = NL})
    + (IF Len(s) > 0 /\ s[Len(s)] # NL THEN 1 ELSE 0)

Header == <<"h", NL>>
Row == <<"r", NL>>

RECURSIVE Texts(_)
Texts(n) ==
    IF n = 0 THEN {<<>>}
    ELSE Texts(n - 1) \cup
         {Append(t, ch) : t \in {u \in Texts(n - 1) : Len(u) = n - 1},
                          ch \in {"x", NL}}

\* ---------------------------------------------------------- local store
load_run_count == IF store # NoFile THEN StrToInt(store) ELSE 0

save_run_count_stale(n) == IF n > 1 THEN IntToStr(n - 1) ELSE IntToStr(n)

save_run_count(n) == IntToStr(n)

\* -------------------------------------------------------------- helpers
should_commit_ignores_flag(c) ==
    run_count[c] % commit_interval[c] = 0

should_commit_ignores_interval(c) ==
    auto_commit[c]

should_commit(c) ==
    auto_commit[c] /\ (run_count[c] % commit_interval[c] = 0)

SkipCommitFlagOnly(c) == ~auto_commit[c]

\* the early return of commit_execution_log
SkipCommit(c) == ~should_commit(c)

FirstFail(o) ==
    IF \E i \in 1..Len(o) : o[i] # "ok"
    THEN CHOOSE i \in 1..Len(o) :
            o[i] # "ok" /\ \A j \in 1..(i - 1) : o[j] = "ok"
    ELSE 0

\* the calls a sequential block issues: all of them, or up to the first
\* one that raises
Issued(steps, o) ==
    LET k == FirstFail(o)
        n == IF k = 0 THEN Len(steps) ELSE k
    IN  [i \in 1..n |-> <<steps[i], o[i]>>]

\* return value of a method whose try block ended with outcome out and
\* whose handler is "except GithubException: return None"
Returned(out, value) ==
    IF out = "ok" THEN value
    ELSE IF out = "GithubException" THEN "None" ELSE "noreturn"

Raised(out) == IF out = "OtherException" THEN "OtherException" ELSE "none"

\* f"{degradation:.1f}" in tenths of a percent, baseline > 0
Degradation(baseline, current) ==
    (2 * (baseline - current) * 1000 + baseline) \div (2 * baseline)

\* ----------------------------------------------------------------- Init
Init ==
    /\ constructed = [c \in Ctrl |-> FALSE]
    /\ auto_commit = [c \in Ctrl |-> FALSE]
    /\ commit_interval = [c \in Ctrl |-> 1]
    /\ run_count = [c \in Ctrl |-> 0]
    /\ store = NoFile
    /\ dashboard \in {Absent} \cup Texts(InitLen)
    /\ op = "none"
    /\ who = "A"
    /\ args = <<>>
    /\ ret = "None"
    /\ retNum = 0
    /\ exc = "none"
    /\ calls = <<>>
    /\ reported = 0
    /\ prevDash = dashboard
    /\ incs = [c \in Ctrl |-> 0]

\* -------------------------------------------------------------- actions
Construct(c) ==
    /\ ~constructed[c]
    /\ \E ac \in BOOLEAN, k \in 1..MaxInterval :
        /\ auto_commit' = [auto_commit EXCEPT ![c] = ac]
        /\ commit_interval' = [commit_interval EXCEPT ![c] = k]
    /\ constructed' = [constructed EXCEPT ![c] = TRUE]
    /\ run_count' = [run_count EXCEPT ![c] = load_run_count]
    /\ op' = "__init__" /\ who' = c /\ args' = <<>>
    /\ ret' = "None" /\ retNum' = 0 /\ exc' = "none"
    /\ calls' = <<>> /\ reported' = 0 /\ prevDash' = dashboard
    /\ UNCHANGED <<store, dashboard, incs>>

increment_run(c) ==
    /\ constructed[c]
    /\ run_count[c] < MaxRuns
    /\ run_count' = [run_count EXCEPT ![c] = run_count[c] + 1]
    /\ store' = save_run_count(run_count'[c])
    /\ incs' = [incs EXCEPT ![c] = incs[c] + 1]
    /\ op' = "increment_run" /\ who' = c /\ args' = <<>>
    /\ ret' = "int" /\ retNum' = run_count'[c] /\ exc' = "none"
    /\ calls' = <<>> /\ reported' = 0 /\ prevDash' = dashboard
    /\ UNCHANGED <<ctrlVars, dashboard>>

ShouldCommitCall(c) ==
    /\ constructed[c]
    /\ op' = "should_commit" /\ who' = c /\ args' = <<>>
    /\ ret' = (IF should_commit(c) THEN "True" ELSE "False")
    /\ retNum' = 0 /\ exc' = "none"
    /\ calls' = <<>> /\ reported' = 0 /\ prevDash' = dashboard
    /\ UNCHANGED <<ctrlVars, run_count, store, dashboard, incs>>

commit_execution_log(c) ==
    /\ constructed[c]
    /\ \E run_number \in RunNumbers, out \in Outcomes :
        /\ args' = <<run_number>>
        /\ IF SkipCommit(c)
           THEN /\ calls' = <<>>
                /\ ret' = "None"
                /\ exc' = "none"
           ELSE /\ calls' = <<<<"create_file", out>>>>
                /\ ret' = Returned(out, "sha")
                /\ exc' = Raised(out)
    /\ op' = "commit_execution_log" /\ who' = c
    /\ retNum' = 0 /\ reported' = 0 /\ prevDash' = dashboard
    /\ UNCHANGED <<ctrlVars, run_count, store, dashboard, incs>>

commit_benchmark_results(c) ==
    /\ constructed[c]
    /\ \E out \in Outcomes :
        /\ calls' = <<<<"create_file", out>>>>
        /\ ret' = Returned(out, "sha")
        /\ exc' = Raised(out)
    /\ op' = "commit_benchmark_results" /\ who' = c /\ args' = <<>>
    /\ retNum' = 0 /\ reported' = 0 /\ prevDash' = dashboard
    /\ UNCHANGED <<ctrlVars, run_count, store, dashboard, incs>>

\* what the platform can answer, given the file it holds: a file that is
\* not there cannot be read, a file that is there cannot be created again
ReadOutcomes == IF dashboard = Absent THEN Failures ELSE Outcomes
CreateOutcomes == IF dashboard = Absent THEN Outcomes ELSE Failures

update_performance_dashboard(c) ==
    /\ constructed[c]
    /\ dashboard # Absent => Len(dashboard) + Len(Row) <= MaxContent
    /\ \E rd \in ReadOutcomes, up \in Outcomes, cr \in CreateOutcomes :
        IF rd = "ok" /\ up = "ok"
        THEN \* inner try block ran to its end
             /\ calls' = <<<<"get_contents", rd>>, <<"update_file", up>>>>
             /\ dashboard' = dashboard \o Row
             /\ ret' = "sha"
             /\ exc' = "none"
        ELSE \* bare except: whatever the inner block raised, create the file
             /\ calls' = (IF rd = "ok"
                          THEN <<<<"get_contents", rd>>, <<"update_file", up>>>>
                          ELSE <<<<"get_contents", rd>>>>)
                         \o <<<<"create_file", cr>>>>
             /\ dashboard' = (IF cr = "ok" THEN Header \o Row ELSE dashboard)
             /\ ret' = Returned(cr, "sha")
             /\ exc' = Raised(cr)
    /\ op' = "update_performance_dashboard" /\ who' = c /\ args' = <<>>
    /\ retNum' = 0 /\ reported' = 0 /\ prevDash' = dashboard
    /\ UNCHANGED <<ctrlVars, run_count, store, incs>>

create_performance_issue_if_degraded(c) ==
    /\ constructed[c]
    /\ \E baseline \in Baselines, current \in Currents,
          threshold \in Thresholds, out \in Outcomes :
        /\ args' = <<baseline, current, threshold>>
        /\ IF current >= baseline - threshold
           THEN /\ calls' = <<>> /\ ret' = "None"
                /\ exc' = "none" /\ reported' = 0
           ELSE IF baseline = 0
           THEN \* (baseline - current) / baseline
                /\ calls' = <<>> /\ ret' = "noreturn"
                /\ exc' = "ZeroDivisionError" /\ reported' = 0
           ELSE /\ calls' = <<<<"create_issue", out>>>>
                /\ reported' = Degradation(baseline, current)
                /\ ret' = Returned(out, "number")
                /\ exc' = Raised(out)
    /\ op' = "create_performance_issue_if_degraded" /\ who' = c
    /\ retNum' = 0 /\ prevDash' = dashboard
    /\ UNCHANGED <<ctrlVars, run_count, store, dashboard, incs>>

create_optimization_pull_request(c) ==
    /\ constructed[c]
    /\ \E f \in 0..Len(PRSteps), kind \in Failures :
        \* the remote answers: step f is the first to raise (0: none does)
        LET o == [i \in 1..Len(PRSteps) |-> IF i = f THEN kind ELSE "ok"]
            k == FirstFail(o)
            out == IF k = 0 THEN "ok" ELSE o[k]
        IN  /\ calls' = Issued(PRSteps, o)
            /\ ret' = Returned(out, "number")
            /\ exc' = Raised(out)
    /\ op' = "create_optimization_pull_request" /\ who' = c /\ args' = <<>>
    /\ retNum' = 0 /\ reported' = 0 /\ prevDash' = dashboard
    /\ UNCHANGED <<ctrlVars, run_count, store, dashboard, incs>>

\* ------------------------------------------------------- specifications
\* one controller, every public operation
Next ==
    \E c \in Single :
        \/ Construct(c)
        \/ increment_run(c)
        \/ ShouldCommitCall(c)
        \/ commit_execution_log(c)
        \/ commit_benchmark_results(c)
        \/ update_performance_dashboard(c)
        \/ create_performance_issue_if_degraded(c)
        \/ create_optimization_pull_request(c)

Spec == Init /\ [][Next]_vars

\* two controller instances over the same counter file, taking turns
NextTwo ==
    \E c \in Ctrl :
        \/ Construct(c)
        \/ increment_run(c)
        \/ ShouldCommitCall(c)
        \/ commit_execution_log(c)

SpecTwo == Init /\ [][NextTwo]_vars

\* ------------------------------------------------------------ properties
HasCall(name) == \E i \in 1..Len(calls) : calls[i][1] = name
HasWrite == \E i \in 1..Len(calls) : calls[i][1] \in WriteCalls
Due(c) == auto_commit[c] /\ (\E q \in 0..run_count[c] :
                                run_count[c] = q * commit_interval[c])
StoreVal == IF store = NoFile THEN 0 ELSE StrToInt(store)

\* C1: a call of should_commit() returns true exactly when auto_commit is
\* set and the counter is a multiple of the interval (interval >= 1), and
\* the call leaves the counter and the counter file as they were.
C1_ShouldCommitIff ==
    [][op' = "should_commit" =>
        /\ ret' \in {"True", "False"}
        /\ (ret' = "True") <=>
              (auto_commit'[who'] /\
               \E q \in 0..run_count'[who'] :
                   run_count'[who'] = q * commit_interval'[who'])
        /\ run_count' = run_count
        /\ store' = store]_vars

C1_Witness ==
    /\ op = "should_commit" /\ ret = "True"
    /\ run_count[who] = 2 /\ commit_interval[who] = 2

\* C2: with one controller over a fresh counter file, after m calls of
\* increment_run the counter is m, the call just made returned the number
\* of calls made so far, and the counter file holds the in-memory counter,
\* whatever other operations were called in between.
C2_IncrementCounts ==
    \A c \in Single :
        constructed[c] =>
            /\ run_count[c] = incs[c]
            /\ (incs[c] > 0 => store # NoFile /\ StrToInt(store) = run_count[c])
            /\ (incs[c] = 0 => store = NoFile)
            /\ (op = "increment_run" /\ who = c =>
                    ret = "int" /\ retNum = incs[c] /\ exc = "none")

C2_Witness ==
    /\ op = "increment_run" /\ who = "A"
    /\ incs["A"] = 3 /\ retNum = 3 /\ store = <<"3">>

\* C3: a commit_execution_log call made while should_commit() is false
\* (flag off, or counter not a multiple of the interval) returns None and
\* issues no remote call, for every run_number.
C3_SkipNoRemote ==
    (op = "commit_execution_log" /\ ~Due(who)) =>
        (ret = "None" /\ calls = <<>> /\ exc = "none")

C3_Witness ==
    /\ op = "commit_execution_log"
    /\ auto_commit[who] /\ run_count[who] % commit_interval[who] # 0
    /\ ret = "None" /\ calls = <<>>

\* C4 (as claimed): create_optimization_pull_request issues its remote
\* steps in the fixed order; a failing step is the last call of the
\* operation, nothing compensates for it, and the operation returns None.
C4_Original ==
    op = "create_optimization_pull_request" =>
        /\ Len(calls) <= Len(PRSteps)
        /\ \A i \in 1..Len(calls) : calls[i][1] = PRSteps[i]
        /\ \A i \in 1..Len(calls) :
              calls[i][2] # "ok" =>
                  (i = Len(calls) /\ ret = "None" /\ exc = "none")

\* C5 (as claimed): a successful update_performance_dashboard leaves the
\* header line and one data row if the file was absent, and otherwise the
\* old content followed by the new row, one row more than before.
C5_Original ==
    (op = "update_performance_dashboard" /\ ret = "sha") =>
        IF prevDash = Absent
        THEN dashboard = Header \o Row /\ Rows(dashboard) = 2
        ELSE /\ dashboard = prevDash \o Row
             /\ Rows(dashboard) = Rows(prevDash) + 1

\* C6 (as claimed): no public operation other than the constructor ends
\* with a propagated exception.
C6_Original ==
    op # "__init__" => exc = "none"

\* C7 (as claimed): create_performance_issue_if_degraded issues
\* create-issue exactly when current < baseline - threshold, returns None
\* without a remote call otherwise; 1.00/0.96/0.05 gives None and
\* 1.00/0.90/0.05 creates an issue reporting 10.0%.
C7_Original ==
    op = "create_performance_issue_if_degraded" =>
        /\ HasCall("create_issue") <=> (args[2] < args[1] - args[3])
        /\ (args[2] >= args[1] - args[3] => ret = "None" /\ calls = <<>>)
        /\ (args = <<100, 96, 5>> => ret = "None" /\ calls = <<>>)
        /\ (args = <<100, 90, 5>> =>
                HasCall("create_issue") /\ reported = 100)

\* C8 (as claimed): whatever the operation, a remote write is attempted
\* only when auto_commit is set and the counter is a multiple of the
\* interval.
C8_Original ==
    HasWrite => Due(who)

\* C8 (amended): a remote write by commit_execution_log is attempted only
\* when auto_commit is set and the counter is a multiple of the interval.
C8_LogWriteOnlyWhenDue ==
    (op = "commit_execution_log" /\ HasWrite) => Due(who)

C8_Witness ==
    /\ op = "commit_execution_log" /\ HasCall("create_file")
    /\ run_count[who] = 3 /\ commit_interval[who] = 3

\* C9 (as claimed): every write to the counter file writes a value at
\* least as large as the one it replaces.
C9_Original ==
    [][StoreVal' >= StoreVal]_vars

\* C10 (as claimed): update_performance_dashboard issues create-file only
\* when the read failed; when the read succeeds and update-file fails it
\* returns None and issues no further remote call.
C10_Original ==
    op = "update_performance_dashboard" =>
        /\ (HasCall("create_file") => calls[1][2] # "ok")
        /\ (Len(calls) >= 2 /\ calls[1][2] = "ok" /\ calls[2][2] # "ok" =>
                ret = "None" /\ Len(calls) = 2)

====
